---- MODULE Spec2Model ----
(***************************************************************************)
(* Identity reconciliation (ContactService.identify) over a table of       *)
(* Contact rows.                                                           *)
(*                                                                         *)
(* The store is the Contact table behind the Prisma client.  A row is      *)
(*   [id, email, phoneNumber, linkedId, linkPrecedence, createdAt].        *)
(* updatedAt and deletedAt are never read by the service and are left out. *)
(*                                                                         *)
(* JavaScript values: Null is null, Empty is the empty string "" (both     *)
(* falsy); every larger number is a non-empty string.  Ids start at 1, so  *)
(* a linkedId of Null is falsy and every real id is truthy.                *)
(*                                                                         *)
(* A findMany without orderBy returns its rows in an order the database    *)
(* chooses; with orderBy createdAt the order among equal createdAt is the  *)
(* database's choice as well.                                              *)
(***************************************************************************)
EXTENDS Integers, Sequences, FiniteSets, TLC

VARIABLES store, nextId, clock, call, loc

vars == <<store, nextId, clock, call, loc>>

-----------------------------------------------------------------------------
(* Bounds of the model *)

MaxContacts == 3
NumEmails == 2
NumPhones == 2
AnyContacts == 2
AnyIds == 3
ConcContacts == 2
ConcEmails == 1
ConcPhones == 1
ViewContacts == 3
DeepIds == 4
DeepEmails == 1
DeepPhones == 1
NumProcs == 2
RaceContacts == 3
RaceEmails == 2
RacePhones == 1

-----------------------------------------------------------------------------
(* Values *)

Null == 0
Empty == 1

Truthy(v) == v > Empty

Emails == 2 .. (NumEmails + 1)
Phones == 2 .. (NumPhones + 1)

BodyEmails == {Null, Empty} \cup Emails
BodyPhones == {Null, Empty} \cup Phones

Ids == 1 .. MaxContacts

-----------------------------------------------------------------------------
(* Sequences of rows *)

RECURSIVE Orders(_)
Orders(S) ==
  IF S = {} THEN {<<>>}
  ELSE UNION {{<<x>> \o s : s \in Orders(S \ {x})} : x \in S}

IsAscending(s) ==
  \A i, j \in 1 .. Len(s) : i < j => s[i].createdAt <= s[j].createdAt

Range(s) == {s[i] : i \in 1 .. Len(s)}

IdsOf(s) == {s[i].id : i \in 1 .. Len(s)}

(* [...contacts].sort((a, b) => a.createdAt - b.createdAt)[0]: the sort is *)
(* stable, so among the rows of least createdAt the first in the input.    *)
Oldest(s) ==
  LET least == CHOOSE i \in 1 .. Len(s) :
                 /\ \A j \in 1 .. Len(s) : s[i].createdAt <= s[j].createdAt
                 /\ \A j \in 1 .. (i - 1) : s[j].createdAt > s[i].createdAt
  IN s[least]

-----------------------------------------------------------------------------
(* The storage collaborator (prisma.contact) *)

Rows(st) == {st[i] : i \in DOMAIN st}

NewContact(id, email, phoneNumber, linkedId, linkPrecedence, createdAt) ==
  [id |-> id, email |-> email, phoneNumber |-> phoneNumber,
   linkedId |-> linkedId, linkPrecedence |-> linkPrecedence,
   createdAt |-> createdAt]

Insert(st, c) == [i \in DOMAIN st \cup {c.id} |-> IF i = c.id THEN c ELSE st[i]]

(* now() at an insert: the clock has advanced since the last insert or it  *)
(* has not (two rows may carry the same createdAt).  Time starts at 1.     *)
Now == IF clock = 0 THEN {1} ELSE {clock, clock + 1}

(* A faulty match: OR: [{email}, {phoneNumber}], a null field matching the *)
(* rows whose field is null                                                *)
FindMatchingNullable(st, email, phoneNumber) ==
  {c \in Rows(st) : c.email = email \/ c.phoneNumber = phoneNumber}

(* findMany({where: {OR: [{email}?, {phoneNumber}?]}}): a falsy field adds *)
(* no condition.                                                           *)
FindMatchingContacts(st, email, phoneNumber) ==
  {c \in Rows(st) :
     \/ Truthy(email) /\ c.email = email
     \/ Truthy(phoneNumber) /\ c.phoneNumber = phoneNumber}

(* findUnique({where: {id}}): the set holding the row, or the empty set *)
FindUnique(st, id) == IF id \in DOMAIN st THEN {st[id]} ELSE {}

(* A faulty fetch: orderBy: {createdAt: "desc"} *)
FetchNewestFirst(st, ids) ==
  {s \in Orders({c \in Rows(st) : c.id \in ids}) :
     \A i, j \in 1 .. Len(s) : i < j => s[i].createdAt >= s[j].createdAt}

(* findMany({where: {id: {in: ids}}, orderBy: {createdAt: "asc"}}) *)
FetchPrimaryContacts(st, ids) ==
  {s \in Orders({c \in Rows(st) : c.id \in ids}) : IsAscending(s)}

(* A faulty read of the cluster: findMany({where: {linkedId: id}}) *)
RelatedLinkedOnly(st, primaryContactId) ==
  Orders({c \in Rows(st) : c.linkedId = primaryContactId})

(* findMany({where: {OR: [{id}, {linkedId: id}]}}) *)
GetAllRelatedContacts(st, primaryContactId) ==
  Orders({c \in Rows(st) :
            c.id = primaryContactId \/ c.linkedId = primaryContactId})

(* Faulty merges: one that demotes the other primaries and leaves their    *)
(* secondaries linked to them, one that links without demoting, and one    *)
(* that keeps the newest of the primaries.                                 *)
MergeOnlyPrimaries(st, allPrimaryContacts) ==
  LET primaryContact == allPrimaryContacts[1]
      otherPrimaryIds == IdsOf(Tail(allPrimaryContacts))
  IN [i \in DOMAIN st |->
        IF st[i].id \in otherPrimaryIds
        THEN [st[i] EXCEPT !.linkedId = primaryContact.id,
                           !.linkPrecedence = "secondary"]
        ELSE st[i]]

MergeLinksOnly(st, allPrimaryContacts) ==
  LET primaryContact == allPrimaryContacts[1]
      otherPrimaryIds == IdsOf(Tail(allPrimaryContacts))
  IN [i \in DOMAIN st |->
        IF st[i].id \in otherPrimaryIds \/ st[i].linkedId \in otherPrimaryIds
        THEN [st[i] EXCEPT !.linkedId = primaryContact.id]
        ELSE st[i]]

MergeNewestSurvives(st, allPrimaryContacts) ==
  LET primaryContact == allPrimaryContacts[Len(allPrimaryContacts)]
      otherPrimaryIds ==
        IdsOf(SubSeq(allPrimaryContacts, 1, Len(allPrimaryContacts) - 1))
  IN [i \in DOMAIN st |->
        IF st[i].id \in otherPrimaryIds \/ st[i].linkedId \in otherPrimaryIds
        THEN [st[i] EXCEPT !.linkedId = primaryContact.id,
                           !.linkPrecedence = "secondary"]
        ELSE st[i]]

(* updateMany({where: {OR: [{id in others}, {linkedId in others}]},        *)
(*             data: {linkedId: primary.id, linkPrecedence: "secondary"}}) *)
MergePrimaryContacts(st, allPrimaryContacts) ==
  LET primaryContact == allPrimaryContacts[1]
      otherPrimaryIds == IdsOf(Tail(allPrimaryContacts))
  IN [i \in DOMAIN st |->
        IF st[i].id \in otherPrimaryIds \/ st[i].linkedId \in otherPrimaryIds
        THEN [st[i] EXCEPT !.linkedId = primaryContact.id,
                           !.linkPrecedence = "secondary"]
        ELSE st[i]]

(* update({where: {id}, data: {linkPrecedence: "primary", linkedId: null}}) *)
Promote(st, id) ==
  [st EXCEPT ![id] = [@ EXCEPT !.linkPrecedence = "primary", !.linkedId = Null]]

-----------------------------------------------------------------------------
(* ContactService *)

(* A faulty iteration: the parent of a secondary is never looked up *)
TraceNoParents(st, s) ==
  LET contact == s.toTrace[Len(s.toTrace)]
      rest == SubSeq(s.toTrace, 1, Len(s.toTrace) - 1)
  IN IF contact.id \in s.traced
     THEN [s EXCEPT !.toTrace = rest]
     ELSE [toTrace |-> rest, traced |-> s.traced \cup {contact.id},
           prims |-> IF contact.linkPrecedence = "primary"
                     THEN s.prims \cup {contact.id} ELSE s.prims]

(* A faulty iteration: a secondary whose parent is absent is recorded as a *)
(* primary                                                                 *)
TraceDanglingAsPrimary(st, s) ==
  LET contact == s.toTrace[Len(s.toTrace)]
      rest == SubSeq(s.toTrace, 1, Len(s.toTrace) - 1)
  IN IF contact.id \in s.traced
     THEN [s EXCEPT !.toTrace = rest]
     ELSE IF contact.linkPrecedence = "primary"
     THEN [toTrace |-> rest, traced |-> s.traced \cup {contact.id},
           prims |-> s.prims \cup {contact.id}]
     ELSE IF contact.linkedId # Null
     THEN LET parent == FindUnique(st, contact.linkedId)
          IN [toTrace |-> IF parent = {} THEN rest
                          ELSE Append(rest, CHOOSE c \in parent : TRUE),
              traced |-> s.traced \cup {contact.id},
              prims |-> IF parent = {} THEN s.prims \cup {contact.id}
                        ELSE s.prims]
     ELSE [toTrace |-> rest, traced |-> s.traced \cup {contact.id},
           prims |-> s.prims]

(* A faulty iteration: tracedIds is filled but never consulted *)
TraceNoDedup(st, s) ==
  LET contact == s.toTrace[Len(s.toTrace)]
      rest == SubSeq(s.toTrace, 1, Len(s.toTrace) - 1)
  IN IF contact.linkPrecedence = "primary"
     THEN [toTrace |-> rest, traced |-> s.traced \cup {contact.id},
           prims |-> s.prims \cup {contact.id}]
     ELSE IF contact.linkedId # Null
     THEN LET parent == FindUnique(st, contact.linkedId)
          IN [toTrace |-> IF parent = {} THEN rest
                          ELSE Append(rest, CHOOSE c \in parent : TRUE),
              traced |-> s.traced \cup {contact.id},
              prims |-> s.prims]
     ELSE [toTrace |-> rest, traced |-> s.traced \cup {contact.id},
           prims |-> s.prims]

(* One iteration of the while loop of findAllPrimaryContactIds: pop the    *)
(* last contact; skip it if traced; a primary is recorded, a secondary     *)
(* with a linkedId has its parent looked up and pushed when it exists.     *)
TraceIter(st, s) ==
  LET contact == s.toTrace[Len(s.toTrace)]
      rest == SubSeq(s.toTrace, 1, Len(s.toTrace) - 1)
  IN IF contact.id \in s.traced
     THEN [s EXCEPT !.toTrace = rest]
     ELSE IF contact.linkPrecedence = "primary"
     THEN [toTrace |-> rest, traced |-> s.traced \cup {contact.id},
           prims |-> s.prims \cup {contact.id}]
     ELSE IF contact.linkedId # Null
     THEN LET parent == FindUnique(st, contact.linkedId)
          IN [toTrace |-> IF parent = {} THEN rest
                          ELSE Append(rest, CHOOSE c \in parent : TRUE),
              traced |-> s.traced \cup {contact.id},
              prims |-> s.prims]
     ELSE [toTrace |-> rest, traced |-> s.traced \cup {contact.id},
           prims |-> s.prims]

TraceStart(matchingContacts) ==
  [toTrace |-> matchingContacts, traced |-> {}, prims |-> {}]

RECURSIVE TraceAll(_, _)
TraceAll(st, s) ==
  IF s.toTrace = <<>> THEN s ELSE TraceAll(st, TraceIter(st, s))

(* findAllPrimaryContactIds, every lookup reading the same store *)
FindAllPrimaryContactIds(st, matchingContacts) ==
  TraceAll(st, TraceStart(matchingContacts)).prims

(* A faulty recovery: the oldest matched contact is returned as it is *)
OrphanNotPromoted(st, matchingContacts) ==
  [store |-> st, primary |-> Oldest(matchingContacts), path |-> "orphan"]

(* A faulty recovery: the other matched contacts are linked to the         *)
(* promoted one                                                            *)
OrphanRelinksOthers(st, matchingContacts) ==
  LET oldestMatchedContact == Oldest(matchingContacts)
      others == IdsOf(matchingContacts) \ {oldestMatchedContact.id}
      relinked == [i \in DOMAIN st |->
                     IF i \in others
                     THEN [st[i] EXCEPT !.linkedId = oldestMatchedContact.id]
                     ELSE st[i]]
  IN [store |-> Promote(relinked, oldestMatchedContact.id),
      primary |-> Promote(relinked, oldestMatchedContact.id)[oldestMatchedContact.id],
      path |-> "orphan"]

(* handleOrphanedSecondaries: the store after it and the contact returned *)
HandleOrphanedSecondaries(st, matchingContacts) ==
  LET oldestMatchedContact == Oldest(matchingContacts)
  IN IF oldestMatchedContact.linkPrecedence # "primary"
     THEN [store |-> Promote(st, oldestMatchedContact.id),
           primary |-> Promote(st, oldestMatchedContact.id)[oldestMatchedContact.id],
           path |-> "orphan"]
     ELSE [store |-> st, primary |-> oldestMatchedContact, path |-> "orphan"]

(* A faulty resolution: orphan recovery is entered with one primary too *)
ResolveOrphanAtOne(st, matchingContacts, allPrimaryContacts) ==
  IF Len(allPrimaryContacts) <= 1
  THEN HandleOrphanedSecondaries(st, matchingContacts)
  ELSE [store |-> MergePrimaryContacts(st, allPrimaryContacts),
        primary |-> allPrimaryContacts[1], path |-> "merge"]

(* resolvePrimaryContact after the two reads: orphan recovery, merge, or   *)
(* the single primary; allPrimaryContacts[0] is returned as it was read.   *)
ResolvePrimaryContact(st, matchingContacts, allPrimaryContacts) ==
  IF Len(allPrimaryContacts) = 0
  THEN HandleOrphanedSecondaries(st, matchingContacts)
  ELSE IF Len(allPrimaryContacts) > 1
  THEN [store |-> MergePrimaryContacts(st, allPrimaryContacts),
        primary |-> allPrimaryContacts[1], path |-> "merge"]
  ELSE [store |-> st, primary |-> allPrimaryContacts[1], path |-> "single"]

(* A faulty novelty test: new unless one contact carries both values *)
NewPairing(allRelatedContacts, email, phoneNumber) ==
  ~\E c \in Range(allRelatedContacts) :
      c.email = email /\ c.phoneNumber = phoneNumber

(* A faulty novelty test: the phone number is not looked at *)
NewEmailOnly(allRelatedContacts, email, phoneNumber) ==
  LET allEmails == {c.email : c \in {d \in Range(allRelatedContacts) : Truthy(d.email)}}
  IN Truthy(email) /\ email \notin allEmails

ShouldCreateSecondaryContact(allRelatedContacts, email, phoneNumber) ==
  LET allEmails == {c.email : c \in {d \in Range(allRelatedContacts) : Truthy(d.email)}}
      allPhones == {c.phoneNumber :
                      c \in {d \in Range(allRelatedContacts) : Truthy(d.phoneNumber)}}
      isNewEmail == Truthy(email) /\ email \notin allEmails
      isNewPhone == Truthy(phoneNumber) /\ phoneNumber \notin allPhones
  IN isNewEmail \/ isNewPhone

(* A faulty push: if (!list.includes(v)) list.push(v) *)
PushAny(list, v) ==
  IF v \notin Range(list) THEN Append(list, v) ELSE list

(* A faulty push: the value is put in front (unshift) *)
PushFront(list, v) ==
  IF Truthy(v) /\ v \notin Range(list) THEN <<v>> \o list ELSE list

(* if (v && !list.includes(v)) list.push(v) *)
PushNew(list, v) ==
  IF Truthy(v) /\ v \notin Range(list) THEN Append(list, v) ELSE list

RECURSIVE CollectEmails(_, _, _)
CollectEmails(contacts, skipId, acc) ==
  IF contacts = <<>> THEN acc
  ELSE CollectEmails(Tail(contacts), skipId,
         IF Head(contacts).id = skipId THEN acc
         ELSE PushNew(acc, Head(contacts).email))

RECURSIVE CollectPhones(_, _, _)
CollectPhones(contacts, skipId, acc) ==
  IF contacts = <<>> THEN acc
  ELSE CollectPhones(Tail(contacts), skipId,
         IF Head(contacts).id = skipId THEN acc
         ELSE PushNew(acc, Head(contacts).phoneNumber))

(* A faulty list of secondaries: the ids of all the contacts *)
RECURSIVE IdsAll(_, _)
IdsAll(contacts, skipId) ==
  IF contacts = <<>> THEN <<>>
  ELSE <<Head(contacts).id>> \o IdsAll(Tail(contacts), skipId)

RECURSIVE IdsExcept(_, _)
IdsExcept(contacts, skipId) ==
  IF contacts = <<>> THEN <<>>
  ELSE (IF Head(contacts).id = skipId THEN <<>> ELSE <<Head(contacts).id>>)
       \o IdsExcept(Tail(contacts), skipId)

(* A faulty choice of the primary: the oldest contact, primary or not *)
ResponseOldest(contacts) == Oldest(contacts)

(* A faulty choice of the primary: the first row read *)
ResponseFirst(contacts) == contacts[1]

(* contacts.find((c) => c.linkPrecedence === "primary") || oldest *)
ResponsePrimary(contacts) ==
  IF \E i \in 1 .. Len(contacts) : contacts[i].linkPrecedence = "primary"
  THEN contacts[CHOOSE i \in 1 .. Len(contacts) :
                  /\ contacts[i].linkPrecedence = "primary"
                  /\ \A j \in 1 .. (i - 1) : contacts[j].linkPrecedence # "primary"]
  ELSE Oldest(contacts)

(* A faulty view: only the values of the primary are listed *)
BuildFromPrimaryOnly(contacts) ==
  IF Len(contacts) = 0
  THEN [error |-> "Cannot build response from empty contacts array"]
  ELSE LET primaryContact == ResponsePrimary(contacts)
       IN [primaryContactId |-> primaryContact.id,
           emails |-> PushNew(<<>>, primaryContact.email),
           phoneNumbers |-> PushNew(<<>>, primaryContact.phoneNumber),
           secondaryContactIds |-> IdsExcept(contacts, primaryContact.id)]

BuildResponseFromContacts(contacts) ==
  IF Len(contacts) = 0
  THEN [error |-> "Cannot build response from empty contacts array"]
  ELSE LET primaryContact == ResponsePrimary(contacts)
       IN [primaryContactId |-> primaryContact.id,
           emails |-> CollectEmails(contacts, primaryContact.id,
                                    PushNew(<<>>, primaryContact.email)),
           phoneNumbers |-> CollectPhones(contacts, primaryContact.id,
                                          PushNew(<<>>, primaryContact.phoneNumber)),
           secondaryContactIds |-> IdsExcept(contacts, primaryContact.id)]

IsResponse(r) == "primaryContactId" \in DOMAIN r

-----------------------------------------------------------------------------
(* identifyController: what it hands to ContactService.identify *)

(* A faulty validation: only null fields are rejected *)
RejectedNullOnly(bodyEmail, bodyPhone) == bodyEmail = Null /\ bodyPhone = Null

(* if (!email && !phoneNumber) return 400 *)
Rejected(bodyEmail, bodyPhone) == ~Truthy(bodyEmail) /\ ~Truthy(bodyPhone)

(* email ?? null *)
ServiceEmail(bodyEmail) == bodyEmail

(* phoneNumber ? String(phoneNumber) : null *)
ServicePhone(bodyPhone) == IF Truthy(bodyPhone) THEN bodyPhone ELSE Null

-----------------------------------------------------------------------------
(* The last completed call, kept for stating properties: its arguments,    *)
(* the store before it, the rows it matched, the primaries it fetched, the *)
(* primary it resolved, the ids it inserted, what it returned, and whether *)
(* it repeats the arguments of a call that matched and inserted nothing.   *)

NoCall ==
  [path |-> "none", email |-> Null, phoneNumber |-> Null, pre |-> <<>>,
   matched |-> {}, allPrimary |-> <<>>, primary |-> Null, inserted |-> {},
   result |-> [error |-> "none"], repeat |-> FALSE]

Repeats(email, phoneNumber) ==
  /\ call.path \in {"single", "merge", "orphan"}
  /\ call.inserted = {}
  /\ call.email = email
  /\ call.phoneNumber = phoneNumber

(* What a call leaves behind: the store, the id and clock counters, and   *)
(* the record of the call.                                                 *)
Outcome(st, nid, clk, path, email, phoneNumber, matchingContacts, allPrimaryContacts, primaryId, inserted, contacts) ==
  [store |-> st, nextId |-> nid, clock |-> clk,
   call |-> [path |-> path, email |-> email, phoneNumber |-> phoneNumber,
             pre |-> store, matched |-> IdsOf(matchingContacts),
             allPrimary |-> allPrimaryContacts, primary |-> primaryId,
             inserted |-> inserted,
             result |-> BuildResponseFromContacts(contacts),
             repeat |-> Repeats(email, phoneNumber)]]

(* The table holds at most MaxContacts rows: an insert beyond is not taken *)
HasRoom(st) == Cardinality(DOMAIN st) < MaxContacts

(* createNewPrimaryContact *)
CreateNewPrimaryContact(email, phoneNumber) ==
  {Outcome(Insert(store, NewContact(nextId, email, phoneNumber, Null, "primary", t)),
           nextId + 1, t, "new", email, phoneNumber, <<>>, <<>>, nextId, {nextId},
           <<NewContact(nextId, email, phoneNumber, Null, "primary", t)>>) :
     t \in {u \in Now : HasRoom(store)}}

(* A faulty insert: the new secondary is not pushed to allRelatedContacts *)
CreateSecondaryNotPushed(r, email, phoneNumber, matchingContacts, allPrimaryContacts, allRelatedContacts) ==
  {Outcome(Insert(r.store,
                  NewContact(nextId, email, phoneNumber, r.primary.id, "secondary", t)),
           nextId + 1, t, r.path, email, phoneNumber, matchingContacts,
           allPrimaryContacts, r.primary.id, {nextId}, allRelatedContacts) :
     t \in {u \in Now : HasRoom(r.store)}}

(* createSecondaryContact, allRelatedContacts.push(newSecondary) and the   *)
(* response                                                                *)
CreateSecondaryContact(r, email, phoneNumber, matchingContacts, allPrimaryContacts, allRelatedContacts) ==
  {Outcome(Insert(r.store,
                  NewContact(nextId, email, phoneNumber, r.primary.id, "secondary", t)),
           nextId + 1, t, r.path, email, phoneNumber, matchingContacts,
           allPrimaryContacts, r.primary.id, {nextId},
           Append(allRelatedContacts,
                  NewContact(nextId, email, phoneNumber, r.primary.id, "secondary", t))) :
     t \in {u \in Now : HasRoom(r.store)}}

(* identify from resolvePrimaryContact on, the reads having returned       *)
(* matchingContacts and allPrimaryContacts                                 *)
IdentifyExisting(email, phoneNumber, matchingContacts, allPrimaryContacts) ==
  LET r == ResolvePrimaryContact(store, matchingContacts, allPrimaryContacts)
  IN UNION {
       IF ShouldCreateSecondaryContact(allRelatedContacts, email, phoneNumber)
       THEN CreateSecondaryContact(r, email, phoneNumber, matchingContacts,
                                   allPrimaryContacts, allRelatedContacts)
       ELSE {Outcome(r.store, nextId, clock, r.path, email, phoneNumber,
                     matchingContacts, allPrimaryContacts, r.primary.id, {},
                     allRelatedContacts)} :
       allRelatedContacts \in GetAllRelatedContacts(r.store, r.primary.id)}

(* identify: every outcome the orders of the rows read allow *)
IdentifyOutcomes(email, phoneNumber) ==
  LET matches == FindMatchingContacts(store, email, phoneNumber)
  IN IF matches = {}
     THEN CreateNewPrimaryContact(email, phoneNumber)
     ELSE UNION {
            UNION {IdentifyExisting(email, phoneNumber, matchingContacts,
                                    allPrimaryContacts) :
                   allPrimaryContacts \in
                     FetchPrimaryContacts(store,
                       FindAllPrimaryContactIds(store, matchingContacts))} :
            matchingContacts \in Orders(matches)}

(* POST /identify served alone, from the controller to the response.  The *)
(* record of the call before it is still held only when this call repeats  *)
(* that call's arguments.                                                  *)
Identify(bodyEmail, bodyPhone) ==
  /\ ~Rejected(bodyEmail, bodyPhone)
  /\ \/ call.path = "none"
     \/ /\ ServiceEmail(bodyEmail) = call.email
        /\ ServicePhone(bodyPhone) = call.phoneNumber
  /\ \E o \in IdentifyOutcomes(ServiceEmail(bodyEmail), ServicePhone(bodyPhone)) :
       /\ store' = o.store
       /\ nextId' = o.nextId
       /\ clock' = o.clock
       /\ call' = o.call
  /\ UNCHANGED loc

-----------------------------------------------------------------------------
(* Requests served one after another, on an empty table *)

Procs == 1 .. NumProcs

Idle == [pc |-> "idle"]

Init ==
  /\ store = <<>>
  /\ nextId = 1
  /\ clock = 0
  /\ call = NoCall
  /\ loc = [p \in Procs |-> Idle]

(* The record of the last call is dropped: no later call depends on it *)
Forget ==
  /\ call.path # "none"
  /\ call' = NoCall
  /\ UNCHANGED <<store, nextId, clock, loc>>

Next ==
  \/ \E bodyEmail \in BodyEmails, bodyPhone \in BodyPhones :
       Identify(bodyEmail, bodyPhone)
  \/ Forget

Spec == Init /\ [][Next]_vars

-----------------------------------------------------------------------------
(* ContactService.identify called directly, without the controller: the    *)
(* arguments are of type string | null, both may be null.                  *)

IdentifyCore(email, phoneNumber) ==
  /\ \/ call.path = "none"
     \/ email = call.email /\ phoneNumber = call.phoneNumber
  /\ \E o \in IdentifyOutcomes(email, phoneNumber) :
       /\ store' = o.store
       /\ nextId' = o.nextId
       /\ clock' = o.clock
       /\ call' = o.call
  /\ UNCHANGED loc

NextCore ==
  \/ \E email \in {Null} \cup Emails, phoneNumber \in {Null} \cup Phones :
       IdentifyCore(email, phoneNumber)
  \/ Forget

SpecCore == Init /\ [][NextCore]_vars

-----------------------------------------------------------------------------
(* Requests served one after another, on a table as other clients of the   *)
(* database may have left it: rows deleted (ids below the next id that are *)
(* absent), secondaries linked to absent rows, to secondaries or to        *)
(* themselves.  Every row is one the service can write: a primary has no   *)
(* linkedId, a secondary has one, createdAt does not decrease with the id, *)
(* and no row has both fields falsy.                                       *)

AnyRows(id) ==
  {r \in [id : {id}, email : BodyEmails, phoneNumber : {Null} \cup Phones,
          linkedId : {Null} \cup (1 .. AnyIds),
          linkPrecedence : {"primary", "secondary"},
          createdAt : 1 .. AnyContacts] :
     /\ Truthy(r.email) \/ Truthy(r.phoneNumber)
     /\ (r.linkPrecedence = "primary") <=> (r.linkedId = Null)}

AnyStores ==
  UNION {
    {st \in [D -> UNION {AnyRows(i) : i \in D}] :
       /\ \A i \in D : st[i].id = i
       /\ \A i, j \in D : i < j => st[i].createdAt <= st[j].createdAt
       /\ \E i \in D : st[i].createdAt = 1
       /\ \A i \in D : st[i].createdAt <= Cardinality(D)} :
    D \in {E \in SUBSET (1 .. AnyIds) : E # {} /\ Cardinality(E) <= AnyContacts}}

InitAny ==
  /\ store \in AnyStores
  /\ nextId = AnyIds + 1
  /\ clock = Cardinality(DOMAIN store)
  /\ call = NoCall
  /\ loc = [p \in Procs |-> Idle]

(* One request on such a table, and the same request again *)
NextAny ==
  \E bodyEmail \in BodyEmails, bodyPhone \in BodyPhones :
    Identify(bodyEmail, bodyPhone)

SpecAny == InitAny /\ [][NextAny]_vars

-----------------------------------------------------------------------------
(* Requests served concurrently: identify step by step, one storage call   *)
(* (or one iteration of the tracing loop) at a time, each process holding  *)
(* what its awaits have returned so far.                                   *)

Local(pc, email, phoneNumber, matching, trace, allPrimary, primary, related) ==
  [pc |-> pc, email |-> email, phoneNumber |-> phoneNumber,
   matching |-> matching, trace |-> trace, allPrimary |-> allPrimary,
   primary |-> primary, related |-> related]

ConcHasRoom == Cardinality(DOMAIN store) < ConcContacts

(* identifyController and findMatchingContacts *)
Begin(p, bodyEmail, bodyPhone) ==
  /\ loc[p].pc = "idle"
  /\ ~Rejected(bodyEmail, bodyPhone)
  /\ LET email == ServiceEmail(bodyEmail)
         phoneNumber == ServicePhone(bodyPhone)
         matches == FindMatchingContacts(store, email, phoneNumber)
     IN \E matchingContacts \in Orders(matches) :
          loc' = [loc EXCEPT ![p] =
                    IF matchingContacts = <<>>
                    THEN Local("createPrimary", email, phoneNumber, <<>>,
                               TraceStart(<<>>), <<>>, Null, <<>>)
                    ELSE Local("trace", email, phoneNumber, matchingContacts,
                               TraceStart(matchingContacts), <<>>, Null, <<>>)]
  /\ UNCHANGED <<store, nextId, clock, call>>

(* createNewPrimaryContact: the insert and the response *)
CreatePrimaryStep(p) ==
  /\ loc[p].pc = "createPrimary"
  /\ ConcHasRoom
  /\ \E t \in Now :
       /\ store' = Insert(store, NewContact(nextId, loc[p].email,
                                            loc[p].phoneNumber, Null, "primary", t))
       /\ clock' = t
  /\ nextId' = nextId + 1
  /\ loc' = [loc EXCEPT ![p] = Idle]
  /\ UNCHANGED call

(* findAllPrimaryContactIds: one iteration of its loop *)
TraceStep(p) ==
  /\ loc[p].pc = "trace"
  /\ loc[p].trace.toTrace # <<>>
  /\ loc' = [loc EXCEPT ![p].trace = TraceIter(store, loc[p].trace)]
  /\ UNCHANGED <<store, nextId, clock, call>>

(* fetchPrimaryContacts, and the branch resolvePrimaryContact takes on it *)
FetchStep(p) ==
  /\ loc[p].pc = "trace"
  /\ loc[p].trace.toTrace = <<>>
  /\ \E allPrimaryContacts \in FetchPrimaryContacts(store, loc[p].trace.prims) :
       loc' = [loc EXCEPT ![p] =
                 IF Len(allPrimaryContacts) = 0
                 THEN Local("orphan", loc[p].email, loc[p].phoneNumber,
                            loc[p].matching, TraceStart(<<>>), <<>>, Null, <<>>)
                 ELSE IF Len(allPrimaryContacts) > 1
                 THEN Local("merge", loc[p].email, loc[p].phoneNumber, <<>>,
                            TraceStart(<<>>), allPrimaryContacts, Null, <<>>)
                 ELSE Local("related", loc[p].email, loc[p].phoneNumber, <<>>,
                            TraceStart(<<>>), <<>>, allPrimaryContacts[1].id, <<>>)]
  /\ UNCHANGED <<store, nextId, clock, call>>

(* handleOrphanedSecondaries *)
OrphanStep(p) ==
  /\ loc[p].pc = "orphan"
  /\ LET r == HandleOrphanedSecondaries(store, loc[p].matching)
     IN /\ store' = r.store
        /\ loc' = [loc EXCEPT ![p] =
                     Local("related", loc[p].email, loc[p].phoneNumber, <<>>,
                           TraceStart(<<>>), <<>>, r.primary.id, <<>>)]
  /\ UNCHANGED <<nextId, clock, call>>

(* mergePrimaryContacts, on the primaries as they were fetched *)
MergeStep(p) ==
  /\ loc[p].pc = "merge"
  /\ store' = MergePrimaryContacts(store, loc[p].allPrimary)
  /\ loc' = [loc EXCEPT ![p] =
               Local("related", loc[p].email, loc[p].phoneNumber, <<>>,
                     TraceStart(<<>>), <<>>, loc[p].allPrimary[1].id, <<>>)]
  /\ UNCHANGED <<nextId, clock, call>>

(* getAllRelatedContacts and shouldCreateSecondaryContact; without a new   *)
(* secondary the response is built and the call ends                       *)
RelatedStep(p) ==
  /\ loc[p].pc = "related"
  /\ \E allRelatedContacts \in GetAllRelatedContacts(store, loc[p].primary) :
       loc' = [loc EXCEPT ![p] =
                 IF ShouldCreateSecondaryContact(allRelatedContacts, loc[p].email,
                                                 loc[p].phoneNumber)
                 THEN Local("createSecondary", loc[p].email, loc[p].phoneNumber,
                            <<>>, TraceStart(<<>>), <<>>, loc[p].primary,
                            allRelatedContacts)
                 ELSE Idle]
  /\ UNCHANGED <<store, nextId, clock, call>>

(* createSecondaryContact: the insert and the response *)
CreateSecondaryStep(p) ==
  /\ loc[p].pc = "createSecondary"
  /\ ConcHasRoom
  /\ \E t \in Now :
       /\ store' = Insert(store, NewContact(nextId, loc[p].email,
                                            loc[p].phoneNumber, loc[p].primary,
                                            "secondary", t))
       /\ clock' = t
  /\ nextId' = nextId + 1
  /\ loc' = [loc EXCEPT ![p] = Idle]
  /\ UNCHANGED call

NextConc ==
  \E p \in Procs :
    \/ \E bodyEmail \in {Null, Empty} \cup (2 .. (ConcEmails + 1)),
          bodyPhone \in {Null, Empty} \cup (2 .. (ConcPhones + 1)) :
         Begin(p, bodyEmail, bodyPhone)
    \/ CreatePrimaryStep(p)
    \/ TraceStep(p)
    \/ FetchStep(p)
    \/ OrphanStep(p)
    \/ MergeStep(p)
    \/ RelatedStep(p)
    \/ CreateSecondaryStep(p)

SpecConc == Init /\ [][NextConc]_vars

-----------------------------------------------------------------------------
(* Storage calls that fail: a rejected promise of the Prisma client.  The  *)
(* service has no try/catch, so the rejection leaves identify as it is and *)
(* reaches the catch of the controller, which ends the request.            *)

StorageErrors == {"Database error", "Connection lost"}

(* A faulty propagation: the error is replaced on its way out *)
Wrapped(e) == "Identification failed"

(* What identify throws when an awaited storage call rejects with e *)
Rethrown(e) == e

Threw(e) == [pc |-> "threw", raised |-> e, error |-> Rethrown(e)]

(* Whether the next step of a call in progress makes a storage call *)
CallsStorage(l) ==
  \/ l.pc \in {"createPrimary", "merge", "related", "createSecondary"}
  \/ /\ l.pc = "trace"
     /\ IF l.trace.toTrace = <<>> THEN TRUE
        ELSE LET contact == l.trace.toTrace[Len(l.trace.toTrace)]
             IN /\ contact.id \notin l.trace.traced
                /\ contact.linkPrecedence # "primary"
                /\ contact.linkedId # Null
  \/ /\ l.pc = "orphan"
     /\ Oldest(l.matching).linkPrecedence # "primary"

(* findMatchingContacts rejects: the first storage call of a request *)
BeginThrow(p, bodyEmail, bodyPhone, e) ==
  /\ loc[p].pc = "idle"
  /\ ~Rejected(bodyEmail, bodyPhone)
  /\ loc' = [loc EXCEPT ![p] = Threw(e)]
  /\ UNCHANGED <<store, nextId, clock, call>>

(* The storage call a request in progress is about to make rejects *)
Throw(p, e) ==
  /\ loc[p].pc \notin {"idle", "threw"}
  /\ CallsStorage(loc[p])
  /\ loc' = [loc EXCEPT ![p] = Threw(e)]
  /\ UNCHANGED <<store, nextId, clock, call>>

(* catch (error) of the controller: the request ends *)
Catch(p) ==
  /\ loc[p].pc = "threw"
  /\ loc' = [loc EXCEPT ![p] = Idle]
  /\ UNCHANGED <<store, nextId, clock, call>>

NextFail ==
  \/ NextConc
  \/ \E p \in Procs, e \in StorageErrors :
       \/ \E bodyEmail \in {Null, Empty} \cup (2 .. (ConcEmails + 1)),
             bodyPhone \in {Null, Empty} \cup (2 .. (ConcPhones + 1)) :
            BeginThrow(p, bodyEmail, bodyPhone, e)
       \/ Throw(p, e)
  \/ \E p \in Procs : Catch(p)

SpecFail == Init /\ [][NextFail]_vars

-----------------------------------------------------------------------------
(* identifyController served alone, with what it answers: the rejection of *)
(* a request without email and phone number, the response of identify, or  *)
(* the answer to an error thrown by identify.                              *)

(* res.status(400).json({ message: "Email or phone number must be provided." }) *)
RespondRejected ==
  [status |-> 400, body |-> [message |-> "Email or phone number must be provided."]]

(* res.status(200).json(result) *)
RespondOk(result) == [status |-> 200, body |-> result]

(* A faulty catch: the message of the error is sent *)
RespondLeaky(error) == [status |-> 500, body |-> [message |-> error]]

(* catch (error): res.status(500).json({ message: "Internal Server Error" }) *)
RespondError(error) == [status |-> 500, body |-> [message |-> "Internal Server Error"]]

(* The record of a request: the record of the call of identify, the body   *)
(* received, whether identify was invoked, and the response sent.          *)
Served(c, bodyEmail, bodyPhone, invoked, response) ==
  c @@ [bodyEmail |-> bodyEmail, bodyPhone |-> bodyPhone, invoked |-> invoked,
        status |-> response.status, body |-> response.body]

(* The tables a call of identify may leave when one of its storage calls   *)
(* rejects: the table as it was (the failed call is the first write or     *)
(* comes before it), or the table after the merge or the promotion (the    *)
(* failed call is the read of the related contacts or the insert).         *)
FailureStores(email, phoneNumber) ==
  LET matches == FindMatchingContacts(store, email, phoneNumber)
  IN {store} \cup
     UNION {{ResolvePrimaryContact(store, matchingContacts, allPrimaryContacts).store :
               allPrimaryContacts \in
                 FetchPrimaryContacts(store,
                   FindAllPrimaryContactIds(store, matchingContacts))} :
            matchingContacts \in Orders(matches) \ {<<>>}}

HandleOutcomes(bodyEmail, bodyPhone) ==
  IF Rejected(bodyEmail, bodyPhone)
  THEN {[store |-> store, nextId |-> nextId, clock |-> clock,
         call |-> Served([NoCall EXCEPT !.path = "rejected", !.pre = store],
                         bodyEmail, bodyPhone, FALSE, RespondRejected)]}
  ELSE LET email == ServiceEmail(bodyEmail)
           phoneNumber == ServicePhone(bodyPhone)
       IN {[o EXCEPT !.call =
              Served(o.call, bodyEmail, bodyPhone, TRUE,
                     IF IsResponse(o.call.result) THEN RespondOk(o.call.result)
                     ELSE RespondError(o.call.result.error))] :
             o \in IdentifyOutcomes(email, phoneNumber)}
          \cup
          {[store |-> st, nextId |-> nextId, clock |-> clock,
            call |-> Served([NoCall EXCEPT !.path = "threw", !.email = email,
                                           !.phoneNumber = phoneNumber,
                                           !.pre = store,
                                           !.result = [error |-> Rethrown(e)]],
                            bodyEmail, bodyPhone, TRUE, RespondError(Rethrown(e)))] :
             st \in FailureStores(email, phoneNumber), e \in StorageErrors}

(* POST /identify, from the body to the response *)
Handle(bodyEmail, bodyPhone) ==
  /\ call.path = "none"
  /\ \E o \in HandleOutcomes(bodyEmail, bodyPhone) :
       /\ store' = o.store
       /\ nextId' = o.nextId
       /\ clock' = o.clock
       /\ call' = o.call
  /\ UNCHANGED loc

NextShell ==
  \/ \E bodyEmail \in BodyEmails, bodyPhone \in BodyPhones :
       Handle(bodyEmail, bodyPhone)
  \/ Forget

SpecShell == Init /\ [][NextShell]_vars

-----------------------------------------------------------------------------
(* buildResponseFromContacts on its own: any list of at most ViewContacts  *)
(* contacts of distinct ids, given in any order of precedence, age and     *)
(* values (the function reads id, email, phoneNumber, linkPrecedence and   *)
(* createdAt only).                                                        *)

ViewFields ==
  [email : BodyEmails, phoneNumber : {Null} \cup Phones,
   linkPrecedence : {"primary", "secondary"}, createdAt : 1 .. 2]

(* The list of n contacts carrying the fields f[1] .. f[n], ids 1 .. n *)
ViewInput(n, f) ==
  [i \in 1 .. n |-> NewContact(i, f[i].email, f[i].phoneNumber, Null,
                               f[i].linkPrecedence, f[i].createdAt)]

InitView ==
  /\ store = <<>>
  /\ nextId = 1
  /\ clock = 0
  /\ loc = [p \in Procs |-> Idle]
  /\ \E n \in 0 .. ViewContacts :
       \E f \in [1 .. n -> ViewFields] :
         call = [path |-> "given", contacts |-> ViewInput(n, f),
                 result |-> [error |-> "none"]]

BuildView ==
  /\ call.path = "given"
  /\ call' = [call EXCEPT !.path = "built",
                          !.result = BuildResponseFromContacts(call.contacts)]
  /\ UNCHANGED <<store, nextId, clock, loc>>

NextView == BuildView

SpecView == InitView /\ [][NextView]_vars

-----------------------------------------------------------------------------
(* Requests served one after another on a table of DeepIds contacts whose  *)
(* secondaries may be linked to secondaries, as interleaved requests leave *)
(* them (a secondary inserted under a primary that a concurrent merge has  *)
(* just demoted): every secondary is linked to an older contact, primary   *)
(* or not.  The table is full: no call inserts.                            *)

DeepFields ==
  {f \in [email : {Null} \cup (2 .. (DeepEmails + 1)),
          phoneNumber : {Null} \cup (2 .. (DeepPhones + 1)),
          linkedId : {Null} \cup (1 .. DeepIds)] :
     Truthy(f.email) \/ Truthy(f.phoneNumber)}

DeepStore(f) ==
  [i \in 1 .. DeepIds |->
     NewContact(i, f[i].email, f[i].phoneNumber, f[i].linkedId,
                IF f[i].linkedId = Null THEN "primary" ELSE "secondary", i)]

InitDeep ==
  /\ \E f \in [1 .. DeepIds -> DeepFields] :
       /\ \A i \in 1 .. DeepIds : f[i].linkedId < i
       /\ store = DeepStore(f)
  /\ nextId = DeepIds + 1
  /\ clock = DeepIds
  /\ call = NoCall
  /\ loc = [p \in Procs |-> Idle]

(* One request on such a table *)
NextDeep ==
  \E bodyEmail \in BodyEmails, bodyPhone \in BodyPhones :
    call.path = "none" /\ Identify(bodyEmail, bodyPhone)

SpecDeep == InitDeep /\ [][NextDeep]_vars

-----------------------------------------------------------------------------
(* Requests served concurrently on a table that holds two clusters: an     *)
(* older primary known by an email and a newer primary known by a phone    *)
(* number.  The requests name at least one value the table holds, so each  *)
(* of them matches; no link dangles, so none of them enters the orphan     *)
(* recovery.  The table grows to at most RaceContacts rows.                *)

InitRace ==
  /\ store = <<NewContact(1, 2, Null, Null, "primary", 1),
               NewContact(2, Null, 2, Null, "primary", 2)>>
  /\ nextId = 3
  /\ clock = 2
  /\ call = NoCall
  /\ loc = [p \in Procs |-> Idle]

(* createSecondaryContact: the insert and the response *)
CreateSecondaryRace(p) ==
  /\ loc[p].pc = "createSecondary"
  /\ Cardinality(DOMAIN store) < RaceContacts
  /\ \E t \in Now :
       /\ store' = Insert(store, NewContact(nextId, loc[p].email,
                                            loc[p].phoneNumber, loc[p].primary,
                                            "secondary", t))
       /\ clock' = t
  /\ nextId' = nextId + 1
  /\ loc' = [loc EXCEPT ![p] = Idle]
  /\ UNCHANGED call

NextRace ==
  \E p \in Procs :
    \/ \E bodyEmail \in {Null} \cup (2 .. (RaceEmails + 1)),
          bodyPhone \in {Null} \cup (2 .. (RacePhones + 1)) :
         /\ FindMatchingContacts(store, ServiceEmail(bodyEmail),
                                 ServicePhone(bodyPhone)) # {}
         /\ Begin(p, bodyEmail, bodyPhone)
    \/ TraceStep(p)
    \/ FetchStep(p)
    \/ MergeStep(p)
    \/ RelatedStep(p)
    \/ CreateSecondaryRace(p)

SpecRace == InitRace /\ [][NextRace]_vars

-----------------------------------------------------------------------------
(* One request at a time, step by step, on a table as other clients of the *)
(* database may have left it (links that dangle, point to a secondary, to  *)
(* the row itself or around a cycle).  An async function whose awaited     *)
(* storage call has resolved is resumed by the event loop: the request in  *)
(* progress always takes its next step.                                    *)

NextTrace ==
  \/ \E bodyEmail \in BodyEmails, bodyPhone \in BodyPhones :
       Begin(1, bodyEmail, bodyPhone)
  \/ CreatePrimaryStep(1)
  \/ TraceStep(1)
  \/ FetchStep(1)
  \/ OrphanStep(1)
  \/ MergeStep(1)
  \/ RelatedStep(1)
  \/ CreateSecondaryStep(1)

SpecTrace == InitAny /\ [][NextTrace]_vars /\ WF_vars(NextTrace)

-----------------------------------------------------------------------------
(* A request during which another client of the database deletes a primary *)
(* the request has matched: findMatchingContacts has returned the row, the *)
(* later reads (findUnique, fetchPrimaryContacts, getAllRelatedContacts)   *)
(* do not find it.  This is how fetchPrimaryContacts returns nothing for a *)
(* matched contact that is primary.                                        *)

(* identifyController and findMatchingContacts *)
Match(bodyEmail, bodyPhone) ==
  /\ call.path = "none"
  /\ ~Rejected(bodyEmail, bodyPhone)
  /\ \E matchingContacts \in
         Orders(FindMatchingContacts(store, ServiceEmail(bodyEmail),
                                     ServicePhone(bodyPhone))) :
       call' = [path |-> "matched", email |-> ServiceEmail(bodyEmail),
                phoneNumber |-> ServicePhone(bodyPhone),
                matching |-> matchingContacts]
  /\ UNCHANGED <<store, nextId, clock, loc>>

(* Another client deletes a matched primary *)
Remove(i) ==
  /\ call.path = "matched"
  /\ i \in IdsOf(call.matching) \cap DOMAIN store
  /\ store[i].linkPrecedence = "primary"
  /\ store' = [j \in DOMAIN store \ {i} |-> store[j]]
  /\ UNCHANGED <<nextId, clock, call, loc>>

(* identify from its second storage call to its response *)
Complete ==
  /\ call.path = "matched"
  /\ \E o \in IF call.matching = <<>>
              THEN CreateNewPrimaryContact(call.email, call.phoneNumber)
              ELSE UNION {IdentifyExisting(call.email, call.phoneNumber,
                                           call.matching, allPrimaryContacts) :
                          allPrimaryContacts \in
                            FetchPrimaryContacts(store,
                              FindAllPrimaryContactIds(store, call.matching))} :
       /\ store' = o.store
       /\ nextId' = o.nextId
       /\ clock' = o.clock
       /\ call' = o.call @@ [matching |-> call.matching]
  /\ UNCHANGED loc

NextGone ==
  \/ \E bodyEmail \in BodyEmails, bodyPhone \in BodyPhones :
       Match(bodyEmail, bodyPhone)
  \/ \E i \in 1 .. AnyIds : Remove(i)
  \/ Complete

SpecGone == InitAny /\ [][NextGone]_vars

-----------------------------------------------------------------------------
(* getPrimaryContact on its own (identify does not call it): a list of     *)
(* contacts read from the table, in any order, some of them possibly       *)
(* carrying no linkedId, on a table whose links may dangle.                *)

(* A faulty helper: only the first contact is looked at for a primary *)
GetPrimaryFirstOnly(st, contacts) ==
  IF contacts[1].linkPrecedence = "primary"
  THEN [contact |-> contacts[1]]
  ELSE IF ~(contacts[1].linkedId > Null)
  THEN [error |-> "Data inconsistency: secondary contact without a linkedId"]
  ELSE IF FindUnique(st, contacts[1].linkedId) = {}
  THEN [error |-> "Data inconsistency: could not find primary contact with id",
        id |-> contacts[1].linkedId]
  ELSE [contact |-> st[contacts[1].linkedId]]

(* getPrimaryContact: the contact returned or the error thrown *)
GetPrimaryContact(st, contacts) ==
  IF \E i \in 1 .. Len(contacts) : contacts[i].linkPrecedence = "primary"
  THEN [contact |->
          contacts[CHOOSE i \in 1 .. Len(contacts) :
                     /\ contacts[i].linkPrecedence = "primary"
                     /\ \A j \in 1 .. (i - 1) : contacts[j].linkPrecedence # "primary"]]
  ELSE IF ~(contacts[1].linkedId > Null)
  THEN [error |-> "Data inconsistency: secondary contact without a linkedId"]
  ELSE IF FindUnique(st, contacts[1].linkedId) = {}
  THEN [error |-> "Data inconsistency: could not find primary contact with id",
        id |-> contacts[1].linkedId]
  ELSE [contact |-> st[contacts[1].linkedId]]

(* The rows of a table as a caller may hold them: as stored, or without    *)
(* their linkedId                                                          *)
Held(st) ==
  Rows(st) \cup {[c EXCEPT !.linkedId = Null] : c \in Rows(st)}

CallGetPrimaryContact ==
  /\ call.path = "none"
  /\ \E S \in SUBSET Held(store) :
       /\ S # {}
       /\ \A c, d \in S : c.id = d.id => c = d
       /\ \E contacts \in Orders(S) :
            call' = [path |-> "got", contacts |-> contacts, pre |-> store,
                     result |-> GetPrimaryContact(store, contacts)]
  /\ UNCHANGED <<store, nextId, clock, loc>>

NextPrimary == CallGetPrimaryContact

SpecPrimary == InitAny /\ [][NextPrimary]_vars

-----------------------------------------------------------------------------
(* Vocabulary of the properties *)

Called == call.path # "none"

MatchedCall == call.path \in {"single", "merge", "orphan"}

(* The cluster of a primary id: the row of that id and the rows linked to it *)
ClusterRows(st, primaryId) ==
  {c \in Rows(st) : c.id = primaryId \/ c.linkedId = primaryId}

EmailsOf(S) == {c.email : c \in {d \in S : Truthy(d.email)}}

PhonesOf(S) == {c.phoneNumber : c \in {d \in S : Truthy(d.phoneNumber)}}

(* The store as the call left it before its insert, if any *)
Resolved == [i \in DOMAIN call.pre |-> store[i]]

(* The rows reached from a set of rows through the pairs of E *)
RECURSIVE Grow(_, _)
Grow(S, E) ==
  LET T == S \cup {e[2] : e \in {f \in E : f[1] \in S}}
  IN IF T = S THEN S ELSE Grow(T, E)

(* The primaries reached from a row by following linkedId *)
LinkPairs(st) ==
  {<<c.id, c.linkedId>> : c \in {d \in Rows(st) : d.linkedId \in DOMAIN st}}

PrimariesOf(st, c) ==
  {i \in Grow({c.id}, LinkPairs(st)) : st[i].linkPrecedence = "primary"}

(* C1: a request with a non-null field that no stored contact carries      *)
(* inserts exactly one contact, primary and unlinked, carrying the         *)
(* request's email and phone; it changes no existing contact; the response *)
(* names the new contact as primary, lists the email and the phone that    *)
(* were given, and lists no secondary.                                     *)
C1_NewIdentity ==
  ( /\ Called
    /\ call.email # Null \/ call.phoneNumber # Null
    /\ \A c \in Rows(call.pre) :
         /\ ~(call.email # Null /\ c.email = call.email)
         /\ ~(call.phoneNumber # Null /\ c.phoneNumber = call.phoneNumber) )
  => \E n \in DOMAIN store \ DOMAIN call.pre :
       /\ DOMAIN store = DOMAIN call.pre \cup {n}
       /\ call.inserted = {n}
       /\ store[n] = NewContact(n, call.email, call.phoneNumber, Null, "primary",
                                store[n].createdAt)
       /\ \A i \in DOMAIN call.pre : store[i] = call.pre[i]
       /\ call.result =
            [primaryContactId |-> n,
             emails |-> IF Truthy(call.email) THEN <<call.email>> ELSE <<>>,
             phoneNumbers |-> IF Truthy(call.phoneNumber)
                              THEN <<call.phoneNumber>> ELSE <<>>,
             secondaryContactIds |-> <<>>]

C1_Witness ==
  /\ call.path = "new"
  /\ call.pre # <<>>
  /\ Truthy(call.email)
  /\ call.phoneNumber = Null

-----------------------------------------------------------------------------
(* C2 as stated: a call that matches inserts a contact if and only if its  *)
(* email is non-null and absent from the emails of the resolved cluster,   *)
(* or its phone is non-null and absent from the cluster's phone numbers;   *)
(* the inserted contact is secondary, linked to the resolved primary,      *)
(* carries the request's email and phone and is listed among the           *)
(* response's secondaryContactIds.                                         *)
InsertedIsSecondary ==
  \A n \in call.inserted :
    /\ store[n] = NewContact(n, call.email, call.phoneNumber, call.primary,
                             "secondary", store[n].createdAt)
    /\ IsResponse(call.result)
    /\ n \in Range(call.result.secondaryContactIds)

C2_AsStated ==
  MatchedCall =>
    LET cluster == ClusterRows(Resolved, call.primary)
        novel ==
          \/ call.email # Null /\ call.email \notin {c.email : c \in cluster}
          \/ call.phoneNumber # Null
               /\ call.phoneNumber \notin {c.phoneNumber : c \in cluster}
    IN /\ (call.inserted # {}) <=> novel
       /\ Cardinality(call.inserted) <= 1
       /\ InsertedIsSecondary

(* C2, amended: the same with "non-null" read as "neither null nor empty"  *)
C2_SecondaryIffNovelty ==
  MatchedCall =>
    LET cluster == ClusterRows(Resolved, call.primary)
        novel ==
          \/ Truthy(call.email) /\ call.email \notin {c.email : c \in cluster}
          \/ Truthy(call.phoneNumber)
               /\ call.phoneNumber \notin {c.phoneNumber : c \in cluster}
    IN /\ (call.inserted # {}) <=> novel
       /\ Cardinality(call.inserted) <= 1
       /\ InsertedIsSecondary

(* an insert was made, and elsewhere both fields were found on different rows *)
C2_Witness ==
  /\ MatchedCall
  /\ call.inserted # {}
  /\ Cardinality(DOMAIN call.pre) >= 2

C2_WitnessNoInsert ==
  /\ MatchedCall
  /\ call.inserted = {}
  /\ Truthy(call.email) /\ Truthy(call.phoneNumber)
  /\ \A c \in Rows(store) :
       ~(c.email = call.email /\ c.phoneNumber = call.phoneNumber)

-----------------------------------------------------------------------------
(* C3: for two primaries P1 (older createdAt) and P2 (newer) of the store  *)
(* before the call whose clusters share no email and no phone, a request   *)
(* carrying a field of one cluster and a field of the other leaves P1      *)
(* primary and unlinked, makes P2 and every contact that was linked to P2  *)
(* secondary and linked to P1, and answers with primaryContactId = P1.id   *)
(* and all of them among secondaryContactIds.                              *)
Bridges(k1, k2) ==
  \/ call.email \in EmailsOf(k1) /\ call.phoneNumber \in PhonesOf(k2)
  \/ call.email \in EmailsOf(k2) /\ call.phoneNumber \in PhonesOf(k1)

C3_PrimaryStability ==
  Called =>
    \A p1, p2 \in DOMAIN call.pre :
      LET k1 == ClusterRows(call.pre, p1)
          k2 == ClusterRows(call.pre, p2)
      IN ( /\ call.pre[p1].linkPrecedence = "primary"
           /\ call.pre[p2].linkPrecedence = "primary"
           /\ call.pre[p1].createdAt < call.pre[p2].createdAt
           /\ EmailsOf(k1) \cap EmailsOf(k2) = {}
           /\ PhonesOf(k1) \cap PhonesOf(k2) = {}
           /\ Bridges(k1, k2) )
         => /\ store[p1].linkPrecedence = "primary"
            /\ store[p1].linkedId = Null
            /\ \A c \in k2 : /\ store[c.id].linkPrecedence = "secondary"
                              /\ store[c.id].linkedId = p1
            /\ IsResponse(call.result)
            /\ call.result.primaryContactId = p1
            /\ {c.id : c \in k2} \subseteq Range(call.result.secondaryContactIds)

(* a merge whose demoted primary had a secondary of its own *)
C3_Witness ==
  /\ call.path = "merge"
  /\ \E p1, p2 \in DOMAIN call.pre :
       /\ call.pre[p1].linkPrecedence = "primary"
       /\ call.pre[p2].linkPrecedence = "primary"
       /\ call.pre[p1].createdAt < call.pre[p2].createdAt
       /\ Bridges(ClusterRows(call.pre, p1), ClusterRows(call.pre, p2))
       /\ Cardinality(ClusterRows(call.pre, p2)) >= 2

-----------------------------------------------------------------------------
(* C4 as stated: a call with the arguments of the call before it, when the *)
(* call before it matched and inserted nothing, inserts nothing and        *)
(* returns the very response the call before it returned.                  *)
C4_AsStated ==
  [][call'.repeat => (call'.inserted = {} /\ call'.result = call.result)]_vars

SameUpToOrder(r1, r2) ==
  /\ IsResponse(r1) /\ IsResponse(r2)
  /\ r1.primaryContactId = r2.primaryContactId
  /\ Len(r1.emails) = Len(r2.emails)
  /\ Range(r1.emails) = Range(r2.emails)
  /\ Len(r1.phoneNumbers) = Len(r2.phoneNumbers)
  /\ Range(r1.phoneNumbers) = Range(r2.phoneNumbers)
  /\ Len(r1.secondaryContactIds) = Len(r2.secondaryContactIds)
  /\ Range(r1.secondaryContactIds) = Range(r2.secondaryContactIds)

(* C4, amended: ... inserts nothing and returns the same primaryContactId  *)
(* and the same emails, phoneNumbers and secondaryContactIds up to the     *)
(* order of the elements of each list.                                     *)
C4_Idempotence ==
  [][call'.repeat =>
       (call'.inserted = {} /\ store' = store
        /\ SameUpToOrder(call'.result, call.result))]_vars

(* the repeated call answered for a cluster of three contacts *)
C4_Witness ==
  /\ call.repeat
  /\ IsResponse(call.result)
  /\ Len(call.result.secondaryContactIds) >= 2

-----------------------------------------------------------------------------
(* C5: in every state of the table, between any two storage calls of       *)
(* concurrent requests, a contact has a linkedId if and only if it is      *)
(* secondary.                                                              *)
C5_LinkedIffSecondary ==
  \A c \in Rows(store) : (c.linkedId # Null) <=> (c.linkPrecedence = "secondary")

(* a secondary linked to a secondary: only interleaved requests leave one *)
C5_Witness ==
  \E c \in Rows(store) :
    /\ c.linkPrecedence = "secondary"
    /\ c.linkedId \in DOMAIN store
    /\ store[c.linkedId].linkPrecedence = "secondary"

-----------------------------------------------------------------------------
(* C6: every secondary's linkedId names a stored contact that is primary   *)
(* (so no secondary is the target of a link, and no link dangles).         *)
C6_FlatClusters ==
  \A c \in Rows(store) :
    c.linkPrecedence = "secondary" =>
      /\ c.linkedId \in DOMAIN store
      /\ store[c.linkedId].linkPrecedence = "primary"

(* after a merge that re-linked a secondary of the demoted primary *)
C6_Witness ==
  /\ call.path = "merge"
  /\ \E c \in Rows(call.pre) :
       /\ c.linkPrecedence = "secondary"
       /\ store[c.id].linkedId # c.linkedId

-----------------------------------------------------------------------------
(* Connected contacts: the rows reached from a row through shared values *)
SharedNonNull(st) ==
  {<<c.id, d.id>> : <<c, d>> \in
     {pr \in Rows(st) \X Rows(st) :
        \/ pr[1].email # Null /\ pr[1].email = pr[2].email
        \/ pr[1].phoneNumber # Null /\ pr[1].phoneNumber = pr[2].phoneNumber}}

SharedPresent(st) ==
  {<<c.id, d.id>> : <<c, d>> \in
     {pr \in Rows(st) \X Rows(st) :
        \/ Truthy(pr[1].email) /\ pr[1].email = pr[2].email
        \/ Truthy(pr[1].phoneNumber) /\ pr[1].phoneNumber = pr[2].phoneNumber}}

SameSinglePrimary(st, i, j) ==
  /\ Cardinality(PrimariesOf(st, st[i])) = 1
  /\ PrimariesOf(st, st[i]) = PrimariesOf(st, st[j])

(* C7 as stated: two contacts connected through shared non-null emails or  *)
(* phone numbers resolve to the same single primary.                       *)
C7_AsStated ==
  \A i \in DOMAIN store :
    \A j \in Grow({i}, SharedNonNull(store)) : SameSinglePrimary(store, i, j)

(* C7, amended: two contacts connected through shared emails or phone      *)
(* numbers that are neither null nor empty resolve to the same single      *)
(* primary.                                                                *)
C7_OnePrimaryPerCluster ==
  \A i \in DOMAIN store :
    \A j \in Grow({i}, SharedPresent(store)) : SameSinglePrimary(store, i, j)

(* two contacts connected only through a third one *)
C7_Witness ==
  \E i, j \in DOMAIN store :
    /\ i # j
    /\ <<i, j>> \notin SharedPresent(store)
    /\ j \in Grow({i}, SharedPresent(store))

-----------------------------------------------------------------------------
(* The consolidated view of the cluster that contains a row *)
ViewOf(st, c) == UNION {ClusterRows(st, p) : p \in PrimariesOf(st, c)}

(* C8: for every contact stored before a call, the emails and the phone    *)
(* numbers of its cluster after the call include those of its cluster      *)
(* before the call.                                                        *)
C8_MonotonicGrowth ==
  Called =>
    \A i \in DOMAIN call.pre :
      /\ EmailsOf(ViewOf(call.pre, call.pre[i]))
           \subseteq EmailsOf(ViewOf(store, store[i]))
      /\ PhonesOf(ViewOf(call.pre, call.pre[i]))
           \subseteq PhonesOf(ViewOf(store, store[i]))

(* a merge moved a cluster of two under another primary *)
C8_Witness ==
  /\ call.path = "merge"
  /\ \E i \in DOMAIN call.pre :
       /\ call.pre[i].linkPrecedence = "secondary"
       /\ store[i].linkedId # call.pre[i].linkedId
       /\ EmailsOf(ViewOf(call.pre, call.pre[i]))
            # EmailsOf(ViewOf(store, store[i]))

-----------------------------------------------------------------------------
(* C10: when a merge involves two primaries of equal createdAt, the one    *)
(* with the lower id survives and the other is demoted under it.           *)
C10_TieBreak ==
  ( /\ call.path = "merge"
    /\ Len(call.allPrimary) = 2
    /\ call.allPrimary[1].createdAt = call.allPrimary[2].createdAt )
  => LET a == call.allPrimary[1].id
         b == call.allPrimary[2].id
         low == IF a < b THEN a ELSE b
         high == IF a < b THEN b ELSE a
     IN /\ store[low].linkPrecedence = "primary"
        /\ store[high].linkPrecedence = "secondary"
        /\ store[high].linkedId = low
        /\ call.result.primaryContactId = low

-----------------------------------------------------------------------------
(* C9: when every matched contact is a secondary from which no primary is  *)
(* reached, the call answers; some matched contact of least createdAt is   *)
(* now primary with no linkedId, and the response names it as primary.     *)
OrphanCase(st, email, phoneNumber) ==
  LET matches == FindMatchingContacts(st, email, phoneNumber)
  IN /\ matches # {}
     /\ \A c \in matches : /\ c.linkPrecedence = "secondary"
                            /\ PrimariesOf(st, c) = {}

C9_OrphanRecovery ==
  (Called /\ OrphanCase(call.pre, call.email, call.phoneNumber)) =>
    LET matches == FindMatchingContacts(call.pre, call.email, call.phoneNumber)
    IN /\ IsResponse(call.result)
       /\ \E o \in matches :
            /\ \A c \in matches : o.createdAt <= c.createdAt
            /\ store[o.id].linkPrecedence = "primary"
            /\ store[o.id].linkedId = Null
            /\ call.result.primaryContactId = o.id

(* two matched secondaries whose links dangle, the older one promoted *)
C9_Witness ==
  /\ Called
  /\ OrphanCase(call.pre, call.email, call.phoneNumber)
  /\ Cardinality(call.matched) >= 2
  /\ \A m \in call.matched : call.pre[m].linkedId \notin DOMAIN call.pre
  /\ \E m, n \in call.matched : call.pre[m].createdAt < call.pre[n].createdAt

-----------------------------------------------------------------------------
(* C11: identify called with email and phone both null fails with an       *)
(* InvalidInput error, inserts no contact and modifies no contact.         *)
C11_InvalidInputGuard ==
  (Called /\ call.email = Null /\ call.phoneNumber = Null)
  => /\ call.result = [error |-> "InvalidInput"]
     /\ call.inserted = {}
     /\ store = call.pre

-----------------------------------------------------------------------------
(* C12: the calls of identify on an overlapping key are serialized: once   *)
(* concurrent calls have completed, at most one primary contact carries a  *)
(* given email (two calls with the same never-seen email do not both       *)
(* create a primary).                                                      *)
C12_Serialization ==
  (\A p \in Procs : loc[p] = Idle)
  => \A c, d \in Rows(store) :
       ( /\ c.linkPrecedence = "primary"
         /\ d.linkPrecedence = "primary"
         /\ Truthy(c.email)
         /\ c.email = d.email )
       => c.id = d.id

-----------------------------------------------------------------------------
(* C13: when a storage call of a request fails, the table is left as it    *)
(* was, identify throws the very error the storage call raised, and the    *)
(* only step the request takes after that is the end of the request: no    *)
(* retry and no further storage call.                                      *)
C13_FailurePropagates ==
  [][\A p \in Procs :
       /\ (loc'[p].pc = "threw" /\ loc'[p] # loc[p])
          => /\ store' = store /\ nextId' = nextId
             /\ loc'[p].error = loc'[p].raised
       /\ (loc[p].pc = "threw" /\ loc'[p] # loc[p])
          => /\ store' = store /\ nextId' = nextId
             /\ loc'[p] = Idle]_vars

(* a request failed at its insert, after its merge was written, while the  *)
(* other request is in progress                                            *)
C13_Witness ==
  \E p, q \in Procs :
    /\ loc[p].pc = "threw"
    /\ loc[q].pc \notin {"idle", "threw"}
    /\ \E c \in Rows(store) : c.linkPrecedence = "secondary"

-----------------------------------------------------------------------------
(* C14: a request whose email and phoneNumber are both absent, null or     *)
(* empty is answered 400 with the message "Email or phone number must be   *)
(* provided.", identify is not invoked and the table is unchanged.         *)
C14_ShellRejects ==
  (Called /\ ~Truthy(call.bodyEmail) /\ ~Truthy(call.bodyPhone))
  => /\ call.status = 400
     /\ call.body = [message |-> "Email or phone number must be provided."]
     /\ ~call.invoked
     /\ store = call.pre

(* an empty email with a null phone number, on a table that holds contacts *)
C14_Witness ==
  /\ Called
  /\ call.bodyEmail = Empty /\ call.bodyPhone = Null
  /\ call.status = 400
  /\ store # <<>>

-----------------------------------------------------------------------------
(* C15: a request with an email or a phoneNumber present is answered 200   *)
(* with the response of identify when identify returns, and 500 with the   *)
(* body {message: "Internal Server Error"} when identify throws, the       *)
(* message of the error not being sent.                                    *)
C15_ShellOutcome ==
  (Called /\ (Truthy(call.bodyEmail) \/ Truthy(call.bodyPhone)))
  => /\ call.invoked
     /\ IF IsResponse(call.result)
        THEN call.status = 200 /\ call.body = call.result
        ELSE /\ call.status = 500
             /\ call.body = [message |-> "Internal Server Error"]
             /\ call.body.message # call.result.error

(* identify threw after its merge was written *)
C15_Witness ==
  /\ call.path = "threw"
  /\ call.status = 500
  /\ store # call.pre

-----------------------------------------------------------------------------
(* The view of a list of contacts: positions and first occurrences *)
Built == call.path = "built" /\ call.contacts # <<>>

NoDuplicates(list) == Cardinality(Range(list)) = Len(list)

Others(contacts, primaryId) ==
  {i \in 1 .. Len(contacts) : contacts[i].id # primaryId}

PositionOf(list, v) == CHOOSE i \in 1 .. Len(list) : list[i] = v

(* the list is: the primary's value if it has one, then the values of the  *)
(* other contacts in the order of their first occurrence                   *)
InViewOrder(list, firstValue, occurrences) ==
  /\ Truthy(firstValue) => list[1] = firstValue
  /\ \A v, w \in Range(list) \ {firstValue} :
       PositionOf(list, v) < PositionOf(list, w)
       <=> \E i \in occurrences[v] : \A j \in occurrences[w] : i < j

(* C16: the emails of the response are exactly the distinct emails of the  *)
(* contacts that are neither null nor empty, each once; the primary's      *)
(* email comes first when the primary has one, and the others follow in    *)
(* the order of their first occurrence among the other contacts as given;  *)
(* the same for phoneNumbers.                                              *)
C16_ViewValues ==
  Built =>
    LET contacts == call.contacts
        r == call.result
        primaryContact ==
          contacts[CHOOSE i \in 1 .. Len(contacts) :
                     contacts[i].id = r.primaryContactId]
        others == Others(contacts, r.primaryContactId)
    IN /\ IsResponse(r)
       /\ \A c \in Range(contacts) :
            (c.linkPrecedence = "primary"
             /\ \A d \in Range(contacts) : d.linkPrecedence = "primary" => d = c)
            => c = primaryContact
       /\ Range(r.emails) = EmailsOf(Range(contacts))
       /\ NoDuplicates(r.emails)
       /\ InViewOrder(r.emails, primaryContact.email,
                      [v \in Range(r.emails) |->
                         {i \in others : contacts[i].email = v}])
       /\ Range(r.phoneNumbers) = PhonesOf(Range(contacts))
       /\ NoDuplicates(r.phoneNumbers)
       /\ InViewOrder(r.phoneNumbers, primaryContact.phoneNumber,
                      [v \in Range(r.phoneNumbers) |->
                         {i \in others : contacts[i].phoneNumber = v}])

(* the primary is given last, has an email, and the two contacts before it *)
(* carry two other emails, one of them twice                               *)
C16_Witness ==
  /\ Built
  /\ Len(call.contacts) = 3
  /\ call.contacts[3].linkPrecedence = "primary"
  /\ call.contacts[1].linkPrecedence = "secondary"
  /\ call.contacts[2].linkPrecedence = "secondary"
  /\ Truthy(call.contacts[3].email)
  /\ Truthy(call.contacts[1].email)
  /\ call.contacts[2].email = call.contacts[3].email
  /\ call.contacts[1].email # call.contacts[3].email
  /\ Len(call.result.emails) = 2

-----------------------------------------------------------------------------
(* C17: the secondaryContactIds of the response are the ids of all the     *)
(* contacts but the chosen primary, each once, and primaryContactId (the   *)
(* id of one of the contacts) is not among them.                           *)
C17_ViewSecondaryIds ==
  Built =>
    LET r == call.result
    IN /\ IsResponse(r)
       /\ r.primaryContactId \in IdsOf(call.contacts)
       /\ Range(r.secondaryContactIds)
            = IdsOf(call.contacts) \ {r.primaryContactId}
       /\ NoDuplicates(r.secondaryContactIds)
       /\ r.primaryContactId \notin Range(r.secondaryContactIds)

(* three contacts, none of them primary: the oldest is chosen *)
C17_Witness ==
  /\ Built
  /\ Len(call.contacts) = 3
  /\ \A c \in Range(call.contacts) : c.linkPrecedence = "secondary"
  /\ call.result.primaryContactId = 2

-----------------------------------------------------------------------------
(* What a step does to the contact of id i *)
KeepsData(i) ==
  /\ i \in DOMAIN store'
  /\ store'[i].id = store[i].id
  /\ store'[i].email = store[i].email
  /\ store'[i].phoneNumber = store[i].phoneNumber
  /\ store'[i].createdAt = store[i].createdAt

Demoted(i) ==
  /\ store[i].linkPrecedence = "primary"
  /\ store'[i].linkPrecedence = "secondary"
  /\ store'[i].linkedId # Null

Promoted(i) ==
  /\ store[i].linkPrecedence = "secondary"
  /\ store'[i].linkPrecedence = "primary"
  /\ store'[i].linkedId = Null

(* a secondary of a primary demoted by this step, linked where that        *)
(* primary is now linked                                                   *)
Relinked(i) ==
  /\ store[i].linkPrecedence = "secondary"
  /\ store'[i].linkPrecedence = "secondary"
  /\ store[i].linkedId \in DOMAIN store
  /\ Demoted(store[i].linkedId)
  /\ store'[i].linkedId = store'[store[i].linkedId].linkedId

(* C18 as stated: no contact is deleted; id, email, phoneNumber and        *)
(* createdAt of a contact never change; a contact changes only by being    *)
(* demoted (primary to secondary, linkedId set) or promoted (secondary to  *)
(* primary, linkedId cleared).                                             *)
C18_AsStated ==
  [][\A i \in DOMAIN store :
       /\ KeepsData(i)
       /\ store'[i] = store[i] \/ Demoted(i) \/ Promoted(i)]_vars

(* C18, amended: ... or by being re-linked, as a secondary of a primary    *)
(* demoted by the merge, to the surviving primary.                         *)
C18_Frame ==
  [][\A i \in DOMAIN store :
       /\ KeepsData(i)
       /\ store'[i] = store[i] \/ Demoted(i) \/ Promoted(i) \/ Relinked(i)]_vars

(* a merge has demoted a primary and re-linked its secondary *)
C18_Witness ==
  /\ call.path = "merge"
  /\ \E i, j \in DOMAIN call.pre :
       /\ call.pre[i].linkPrecedence = "primary"
       /\ store[i].linkPrecedence = "secondary"
       /\ call.pre[j].linkedId = i
       /\ store[j].linkedId = store[i].linkedId

-----------------------------------------------------------------------------
(* C19: when a call matches a secondary of a cluster A without matching    *)
(* A's primary, and a contact of another cluster B, the two clusters are   *)
(* merged as if both primaries had been matched: a primary that is not the *)
(* newer of the two stays primary and unlinked, every other contact of A   *)
(* and B is secondary and linked to it, and the response names it.         *)
BridgesThroughSecondary(pa, pb) ==
  /\ pa # pb
  /\ call.pre[pa].linkPrecedence = "primary"
  /\ call.pre[pb].linkPrecedence = "primary"
  /\ pa \notin call.matched
  /\ \E c \in ClusterRows(call.pre, pa) : c.id \in call.matched
  /\ \E c \in ClusterRows(call.pre, pb) : c.id \in call.matched

C19_BridgingThroughSecondary ==
  Called =>
    \A pa, pb \in DOMAIN call.pre :
      BridgesThroughSecondary(pa, pb) =>
        \E s \in {pa, pb} :
          /\ \A o \in {pa, pb} : call.pre[s].createdAt <= call.pre[o].createdAt
          /\ store[s].linkPrecedence = "primary"
          /\ store[s].linkedId = Null
          /\ \A c \in ClusterRows(call.pre, pa) \cup ClusterRows(call.pre, pb) :
               c.id # s => /\ store[c.id].linkPrecedence = "secondary"
                           /\ store[c.id].linkedId = s
          /\ IsResponse(call.result)
          /\ call.result.primaryContactId = s

(* the cluster reached only through its secondary has the newer primary *)
C19_Witness ==
  /\ call.path = "merge"
  /\ \E pa, pb \in DOMAIN call.pre :
       /\ BridgesThroughSecondary(pa, pb)
       /\ call.pre[pb].createdAt < call.pre[pa].createdAt
       /\ store[pa].linkedId = pb

-----------------------------------------------------------------------------
(* C20: after a merge, every contact that traced up to a demoted primary   *)
(* is linked to the survivor directly, and no contact of the merged        *)
(* cluster is linked to a secondary, also when a secondary was linked to a *)
(* secondary before the merge.                                             *)
C20_MergeFlattens ==
  call.path = "merge" =>
    LET demoted == IdsOf(Tail(call.allPrimary))
    IN \A c \in Rows(call.pre) :
         PrimariesOf(call.pre, c) \cap demoted # {}
         => /\ store[c.id].linkedId = call.primary
            /\ store[store[c.id].linkedId].linkPrecedence = "primary"

-----------------------------------------------------------------------------
(* The primaries reached from the contacts a call matched *)
ReachedPrimaries(st, email, phoneNumber) ==
  UNION {PrimariesOf(st, c) : c \in FindMatchingContacts(st, email, phoneNumber)}

(* C21: when exactly one primary is reached from the matched contacts, the *)
(* call changes no stored contact; the only change of the table it may     *)
(* make is the insertion of one new secondary.                             *)
C21_SinglePrimaryNoMutation ==
  ( /\ Called
    /\ Cardinality(ReachedPrimaries(call.pre, call.email, call.phoneNumber)) = 1 )
  => /\ \A i \in DOMAIN call.pre : store[i] = call.pre[i]
     /\ DOMAIN store = DOMAIN call.pre \cup call.inserted
     /\ Cardinality(call.inserted) <= 1
     /\ \A n \in call.inserted : store[n].linkPrecedence = "secondary"

(* only a secondary was matched, its primary was reached through its link, *)
(* and a new secondary was inserted                                        *)
C21_Witness ==
  /\ call.path = "single"
  /\ call.inserted # {}
  /\ call.primary \notin call.matched
  /\ Cardinality(ReachedPrimaries(call.pre, call.email, call.phoneNumber)) = 1

-----------------------------------------------------------------------------
(* The matched secondaries whose linkedId names no stored contact *)
Dangling(st, email, phoneNumber) ==
  {c \in FindMatchingContacts(st, email, phoneNumber) :
     /\ c.linkPrecedence = "secondary"
     /\ c.linkedId # Null
     /\ c.linkedId \notin DOMAIN st}

(* C22: when the matched contacts include a secondary whose linkedId names *)
(* no stored contact and a contact from which a primary is reached, the    *)
(* call answers, does not run the orphan recovery, leaves the dangling     *)
(* contact as it was, and resolves to one of the primaries reached.        *)
C22_DanglingTolerated ==
  ( /\ Called
    /\ Dangling(call.pre, call.email, call.phoneNumber) # {}
    /\ ReachedPrimaries(call.pre, call.email, call.phoneNumber) # {} )
  => /\ IsResponse(call.result)
     /\ call.path \in {"single", "merge"}
     /\ \A c \in Dangling(call.pre, call.email, call.phoneNumber) :
          store[c.id] = c
     /\ call.primary \in ReachedPrimaries(call.pre, call.email, call.phoneNumber)
     /\ call.result.primaryContactId = call.primary
     /\ store[call.primary].linkPrecedence = "primary"

(* the dangling secondary is older than the primary matched with it *)
C22_Witness ==
  /\ Called
  /\ ReachedPrimaries(call.pre, call.email, call.phoneNumber) # {}
  /\ \E c \in Dangling(call.pre, call.email, call.phoneNumber) :
       c.createdAt < call.pre[call.primary].createdAt

-----------------------------------------------------------------------------
(* C23: on every table, also one whose links form a cycle among            *)
(* secondaries or link a row to itself, each iteration of the traversal    *)
(* either drops a contact already visited or visits a contact not yet      *)
(* visited (so each id is visited at most once), the traversal ends, and   *)
(* the call goes on to its end or to its final insert.                     *)
C23_TraversalTerminates ==
  /\ [][\A p \in Procs :
         (loc[p].pc = "trace" /\ loc'[p].pc = "trace" /\ loc'[p] # loc[p])
         => \/ /\ loc'[p].trace.traced = loc[p].trace.traced
               /\ Len(loc'[p].trace.toTrace) < Len(loc[p].trace.toTrace)
            \/ /\ \E i \in DOMAIN store \ loc[p].trace.traced :
                    loc'[p].trace.traced = loc[p].trace.traced \cup {i}
               /\ Len(loc'[p].trace.toTrace) <= Len(loc[p].trace.toTrace)]_vars
  /\ (loc[1].pc = "trace") ~> (loc[1].pc \in {"idle", "createSecondary"})

(* the orphan recovery is reached from two matched secondaries linked to   *)
(* each other                                                              *)
C23_Witness ==
  /\ loc[1].pc = "orphan"
  /\ \E c, d \in Range(loc[1].matching) :
       /\ c.id # d.id
       /\ c.linkedId = d.id
       /\ d.linkedId = c.id

-----------------------------------------------------------------------------
(* C24: the contacts a call matches are exactly the stored contacts whose  *)
(* email is the email given or whose phoneNumber is the phone given (a     *)
(* field is given when it is neither null nor empty); with a null phone    *)
(* every matched contact carries the email given, whatever its phoneNumber *)
(* (and likewise with a null email); values never seen match nothing, and  *)
(* the call then answers by creating a primary instead of failing.         *)
C24_Matcher ==
  Called =>
    /\ call.matched =
         {c.id : c \in {d \in Rows(call.pre) :
                          \/ Truthy(call.email) /\ d.email = call.email
                          \/ Truthy(call.phoneNumber)
                               /\ d.phoneNumber = call.phoneNumber}}
    /\ call.phoneNumber = Null
         => \A m \in call.matched : call.pre[m].email = call.email
    /\ call.email = Null
         => \A m \in call.matched : call.pre[m].phoneNumber = call.phoneNumber
    /\ IsResponse(call.result)
    /\ call.matched = {} <=> call.path = "new"

(* a call with a null phone matched by email, the table holding another    *)
(* contact whose phoneNumber is null                                       *)
C24_Witness ==
  /\ Called
  /\ call.phoneNumber = Null
  /\ call.matched # {}
  /\ \E i \in DOMAIN call.pre \ call.matched : call.pre[i].phoneNumber = Null

-----------------------------------------------------------------------------
(* C25: when the contacts given to the view builder include a primary, the *)
(* contact reported as primaryContactId is a primary; when they include    *)
(* none, it is a contact of least createdAt, wherever it stands in the     *)
(* list; all the other contacts are reported as secondaries.               *)
C25_ViewPrimaryFallback ==
  Built =>
    LET contacts == call.contacts
        r == call.result
        reported == {c \in Range(contacts) : c.id = r.primaryContactId}
        primaries == {c \in Range(contacts) : c.linkPrecedence = "primary"}
    IN /\ IsResponse(r)
       /\ Cardinality(reported) = 1
       /\ primaries # {} => reported \subseteq primaries
       /\ Cardinality(primaries) = 1 => reported = primaries
       /\ primaries = {}
            => \A c \in reported : \A d \in Range(contacts) :
                 c.createdAt <= d.createdAt
       /\ Range(r.secondaryContactIds) = IdsOf(contacts) \ {r.primaryContactId}

(* no primary among three contacts, the oldest of them given last *)
C25_Witness ==
  /\ Built
  /\ Len(call.contacts) = 3
  /\ \A c \in Range(call.contacts) : c.linkPrecedence = "secondary"
  /\ call.contacts[3].createdAt < call.contacts[1].createdAt
  /\ call.contacts[3].createdAt < call.contacts[2].createdAt
  /\ call.result.primaryContactId = call.contacts[3].id

-----------------------------------------------------------------------------
(* C26: the view builder given no contact fails with the error "Cannot     *)
(* build response from empty contacts array" instead of answering, and no  *)
(* call of identify meets that failure: the contacts it hands to the view  *)
(* builder include the primary it resolved.                                *)
C26_EmptyViewUnreachable ==
  /\ BuildResponseFromContacts(<<>>)
       = [error |-> "Cannot build response from empty contacts array"]
  /\ Called =>
       /\ IsResponse(call.result)
       /\ call.primary \in {call.result.primaryContactId}
                             \cup Range(call.result.secondaryContactIds)

(* the smallest cluster: an orphan promoted, its cluster holding it alone *)
C26_Witness ==
  /\ call.path = "orphan"
  /\ IsResponse(call.result)
  /\ call.result.primaryContactId = call.primary
  /\ call.result.secondaryContactIds = <<>>
  /\ call.pre[call.primary].linkPrecedence = "secondary"

-----------------------------------------------------------------------------
(* C27: when a storage call of identify fails partway through the call     *)
(* (the insert of the new secondary after the merge was written, the read  *)
(* of the cluster after a promotion), the table is left exactly as it was  *)
(* before the call.                                                        *)
C27_AtomicOnFailure ==
  call.path = "threw" => store = call.pre

-----------------------------------------------------------------------------
(* C28: whatever the interleaving of a call that merges the primary P2     *)
(* under the older primary P1 with a call that inserts a new secondary for *)
(* the cluster of P2, once the calls have completed every secondary is     *)
(* linked to a stored contact that is primary: none is linked to the       *)
(* demoted P2.                                                             *)
C28_FlatUnderConcurrency ==
  (\A p \in Procs : loc[p] = Idle)
  => \A c \in Rows(store) :
       c.linkPrecedence = "secondary" =>
         /\ c.linkedId \in DOMAIN store
         /\ store[c.linkedId].linkPrecedence = "primary"

-----------------------------------------------------------------------------
(* C29: a call inserts at most one contact; a call whose email is carried  *)
(* by the cluster of one primary and whose phone is carried by the cluster *)
(* of another primary merges the two and inserts no contact.               *)
C29_AtMostOneInsert ==
  Called =>
    /\ DOMAIN store \ DOMAIN call.pre = call.inserted
    /\ Cardinality(call.inserted) <= 1
    /\ \A p1, p2 \in DOMAIN call.pre :
         ( /\ p1 # p2
           /\ call.pre[p1].linkPrecedence = "primary"
           /\ call.pre[p2].linkPrecedence = "primary"
           /\ Bridges(ClusterRows(call.pre, p1), ClusterRows(call.pre, p2)) )
         => /\ call.path = "merge"
            /\ call.inserted = {}
            /\ DOMAIN store = DOMAIN call.pre
            /\ store[p1].linkPrecedence # store[p2].linkPrecedence

(* two primaries alone in the table, bridged: there was room for an insert *)
C29_Witness ==
  /\ call.path = "merge"
  /\ Cardinality(DOMAIN call.pre) = 2
  /\ HasRoom(store)
  /\ \E p1, p2 \in DOMAIN call.pre :
       /\ p1 # p2
       /\ Bridges(ClusterRows(call.pre, p1), ClusterRows(call.pre, p2))

-----------------------------------------------------------------------------
(* Two responses that agree up to the order of their lists *)
SameSets(r1, r2) ==
  /\ IsResponse(r1) /\ IsResponse(r2)
  /\ r1.primaryContactId = r2.primaryContactId
  /\ Range(r1.emails) = Range(r2.emails)
  /\ Range(r1.phoneNumbers) = Range(r2.phoneNumbers)
  /\ Range(r1.secondaryContactIds) = Range(r2.secondaryContactIds)

(* C30: on any table sequential requests have produced and for any request *)
(* with an email or a phone present, a call that follows a call with the   *)
(* same arguments leaves the table as it is and returns the same           *)
(* primaryContactId and the same sets of emails, phoneNumbers and          *)
(* secondaryContactIds, whether the first call created a primary, created  *)
(* a secondary or merged clusters.                                         *)
C30_GeneralIdempotence ==
  [][(Called /\ call'.path # "none")
     => /\ call'.email = call.email
        /\ call'.phoneNumber = call.phoneNumber
        /\ store' = store
        /\ nextId' = nextId
        /\ call'.inserted = {}
        /\ SameSets(call'.result, call.result)]_vars

(* the repeat of a call that inserted a secondary: the newest contact is a *)
(* secondary carrying the arguments of the call, which inserted nothing    *)
C30_Witness ==
  /\ MatchedCall
  /\ call.inserted = {}
  /\ store = call.pre
  /\ nextId - 1 \in DOMAIN store
  /\ store[nextId - 1].linkPrecedence = "secondary"
  /\ store[nextId - 1].email = call.email
  /\ store[nextId - 1].phoneNumber = call.phoneNumber
  /\ Truthy(call.email) /\ Truthy(call.phoneNumber)

-----------------------------------------------------------------------------
(* C31 as stated: the response of a call lists the email of the request    *)
(* among its emails when that email is not null, and the phone of the      *)
(* request among its phoneNumbers when that phone is not null.             *)
C31_AsStated ==
  (Called /\ IsResponse(call.result)) =>
    /\ call.email # Null => call.email \in Range(call.result.emails)
    /\ call.phoneNumber # Null
         => call.phoneNumber \in Range(call.result.phoneNumbers)

(* C31, amended: ... when that email is neither null nor empty, and the    *)
(* phone of the request when that phone is neither null nor empty.         *)
C31_ResponseReflectsRequest ==
  Called =>
    /\ IsResponse(call.result)
    /\ Truthy(call.email) => call.email \in Range(call.result.emails)
    /\ Truthy(call.phoneNumber)
         => call.phoneNumber \in Range(call.result.phoneNumbers)

(* the email of the request was new to a cluster matched by the phone: it  *)
(* is listed after the email of the primary                                *)
C31_Witness ==
  /\ MatchedCall
  /\ call.inserted # {}
  /\ Truthy(call.email) /\ Truthy(call.phoneNumber)
  /\ IsResponse(call.result)
  /\ Len(call.result.emails) >= 2
  /\ call.result.emails[1] # call.email
  /\ call.email \in Range(call.result.emails)

-----------------------------------------------------------------------------
(* Ids and createdAt assigned in strictly increasing order *)
StrictlyIncreasing(st) ==
  \A i, j \in DOMAIN st : i < j => st[i].createdAt < st[j].createdAt

(* C32: in every table sequential requests reach, with ids and createdAt   *)
(* assigned in strictly increasing order, a primary has a smaller id and   *)
(* an earlier createdAt than every secondary linked to it.                 *)
C32_PrimaryIsOldest ==
  StrictlyIncreasing(store) =>
    \A c \in Rows(store) :
      c.linkPrecedence = "secondary" =>
        /\ c.linkedId \in DOMAIN store
        /\ store[c.linkedId].id < c.id
        /\ store[c.linkedId].createdAt < c.createdAt

(* after a merge of two primaries created at different times, the table    *)
(* holding a third contact                                                 *)
C32_Witness ==
  /\ StrictlyIncreasing(store)
  /\ call.path = "merge"
  /\ Cardinality(DOMAIN store) = 3
  /\ \E c \in Rows(store) :
       /\ c.linkPrecedence = "secondary"
       /\ call.pre[c.id].linkPrecedence = "primary"

-----------------------------------------------------------------------------
(* C33: in any sequence of requests served one after another from the      *)
(* empty table, the orphan recovery is never entered (the contacts a call  *)
(* matches always reach a primary), and a contact that is secondary never  *)
(* becomes primary again.                                                  *)
C33_DemotionPermanent ==
  /\ [](Called =>
         /\ call.path # "orphan"
         /\ call.matched # {}
              => ReachedPrimaries(call.pre, call.email, call.phoneNumber) # {})
  /\ [][\A i \in DOMAIN store :
         store[i].linkPrecedence = "secondary"
         => store'[i].linkPrecedence = "secondary"]_vars

(* a call matched only a demoted primary (a secondary that shares no value *)
(* with any other contact) and resolved to the primary above it            *)
C33_Witness ==
  /\ call.path = "single"
  /\ \E m \in call.matched :
       /\ call.matched = {m}
       /\ call.pre[m].linkPrecedence = "secondary"
       /\ store[m].linkPrecedence = "secondary"
       /\ call.primary = call.pre[m].linkedId
       /\ \A i \in DOMAIN call.pre \ {m} :
            /\ ~(Truthy(call.pre[m].email) /\ call.pre[i].email = call.pre[m].email)
            /\ ~(Truthy(call.pre[m].phoneNumber)
                 /\ call.pre[i].phoneNumber = call.pre[m].phoneNumber)

-----------------------------------------------------------------------------
(* C34: after a call served on a table sequential requests have produced,  *)
(* primaryContactId names a stored contact that is primary and has no      *)
(* linkedId, and secondaryContactIds holds exactly the ids of the stored   *)
(* contacts whose linkedId is primaryContactId, all of them secondary.     *)
C34_ResponseAgreesWithStore ==
  Called =>
    /\ IsResponse(call.result)
    /\ call.result.primaryContactId \in DOMAIN store
    /\ store[call.result.primaryContactId].linkPrecedence = "primary"
    /\ store[call.result.primaryContactId].linkedId = Null
    /\ Range(call.result.secondaryContactIds)
         = {c.id : c \in {d \in Rows(store) :
                            d.linkedId = call.result.primaryContactId}}
    /\ \A i \in Range(call.result.secondaryContactIds) :
         store[i].linkPrecedence = "secondary"

(* the response of a merge lists the demoted primary and a secondary *)
C34_Witness ==
  /\ call.path = "merge"
  /\ IsResponse(call.result)
  /\ Len(call.result.secondaryContactIds) = 2
  /\ \E i \in Range(call.result.secondaryContactIds) :
       call.pre[i].linkPrecedence = "primary"

-----------------------------------------------------------------------------
(* The ids a response names *)
Named(r) == {r.primaryContactId} \cup Range(r.secondaryContactIds)

(* C35 as stated: after a call, every stored contact whose email is the    *)
(* non-null email of the request or whose phoneNumber is the non-null      *)
(* phone of the request is named by the response, as primaryContactId or   *)
(* among secondaryContactIds.                                              *)
C35_AsStated ==
  (Called /\ IsResponse(call.result)) =>
    \A c \in Rows(store) :
      ( \/ call.email # Null /\ c.email = call.email
        \/ call.phoneNumber # Null /\ c.phoneNumber = call.phoneNumber )
      => c.id \in Named(call.result)

(* C35, amended: ... whose email is the email of the request, neither null *)
(* nor empty, or whose phoneNumber is the phone of the request, neither    *)
(* null nor empty, is named by the response.                               *)
C35_MatchedInCluster ==
  Called =>
    /\ IsResponse(call.result)
    /\ \A c \in Rows(store) :
         ( \/ Truthy(call.email) /\ c.email = call.email
           \/ Truthy(call.phoneNumber) /\ c.phoneNumber = call.phoneNumber )
         => c.id \in Named(call.result)

(* a merge whose request matched a secondary of the demoted primary *)
C35_Witness ==
  /\ call.path = "merge"
  /\ IsResponse(call.result)
  /\ \E m \in call.matched :
       /\ call.pre[m].linkPrecedence = "secondary"
       /\ call.pre[m].linkedId # call.primary
       /\ m \in Range(call.result.secondaryContactIds)

-----------------------------------------------------------------------------
(* Several contacts matched, all of them secondaries whose links dangle *)
AllDangling(st, email, phoneNumber) ==
  /\ Cardinality(FindMatchingContacts(st, email, phoneNumber)) >= 2
  /\ Dangling(st, email, phoneNumber) = FindMatchingContacts(st, email, phoneNumber)

(* C36: when a call enters the orphan recovery with several matched        *)
(* secondaries whose links dangle, it changes exactly one stored contact,  *)
(* a matched one of least createdAt, which it promotes; every other        *)
(* matched contact keeps its linkPrecedence and its dangling linkedId.     *)
C36_OrphanTouchesOne ==
  (Called /\ AllDangling(call.pre, call.email, call.phoneNumber)) =>
    /\ call.path = "orphan"
    /\ \E o \in call.matched :
         /\ \A m \in call.matched : call.pre[o].createdAt <= call.pre[m].createdAt
         /\ store[o] = [call.pre[o] EXCEPT !.linkPrecedence = "primary",
                                            !.linkedId = Null]
         /\ \A i \in DOMAIN call.pre \ {o} : store[i] = call.pre[i]
         /\ \A m \in call.matched \ {o} :
              /\ store[m].linkPrecedence = "secondary"
              /\ store[m].linkedId \notin DOMAIN call.pre
              /\ store[m].linkedId # o

(* two dangling secondaries matched, one promoted, and a new secondary     *)
(* inserted under it while the other stays as it was                       *)
C36_Witness ==
  /\ call.path = "orphan"
  /\ AllDangling(call.pre, call.email, call.phoneNumber)
  /\ call.inserted # {}
  /\ \E m \in call.matched : store[m] = call.pre[m]

-----------------------------------------------------------------------------
-----------------------------------------------------------------------------
(* C38: getPrimaryContact given a non-empty list returns the first contact *)
(* of the list that is primary; when the list has none it returns the      *)
(* stored contact whose id is the linkedId of the first contact; it fails  *)
(* with a "Data inconsistency" error when the first contact has no         *)
(* linkedId or when no stored contact has that id; it leaves the table as  *)
(* it is.                                                                  *)
C38_GetPrimaryContact ==
  call.path = "got" =>
    LET contacts == call.contacts
        r == call.result
        primaries == {i \in 1 .. Len(contacts) :
                        contacts[i].linkPrecedence = "primary"}
        linkedId == contacts[1].linkedId
    IN /\ store = call.pre
       /\ primaries # {}
            => \E i \in primaries :
                 /\ \A j \in primaries : i <= j
                 /\ r = [contact |-> contacts[i]]
       /\ (primaries = {} /\ linkedId \in DOMAIN call.pre)
            => r = [contact |-> call.pre[linkedId]]
       /\ (primaries = {} /\ linkedId = Null)
            => r = [error |->
                     "Data inconsistency: secondary contact without a linkedId"]
       /\ (primaries = {} /\ linkedId # Null /\ linkedId \notin DOMAIN call.pre)
            => /\ "error" \in DOMAIN r
               /\ r.error = "Data inconsistency: could not find primary contact with id"
               /\ r.id = linkedId

(* the primary stands second in the list, after a secondary whose link     *)
(* dangles                                                                 *)
C38_Witness ==
  /\ call.path = "got"
  /\ Len(call.contacts) = 2
  /\ call.contacts[1].linkPrecedence = "secondary"
  /\ call.contacts[1].linkedId \notin DOMAIN store \cup {Null}
  /\ call.contacts[2].linkPrecedence = "primary"
  /\ call.result = [contact |-> call.contacts[2]]

====
